---- MODULE Spec2Model ----
(***************************************************************************)
(* Model of cslibs_mapping::mapper::Mapper (mapper.hpp) together with the  *)
(* concrete OccupancyGridMapper3D (getMap / setupMap / uses / process).    *)
(*                                                                         *)
(* Threads:                                                                *)
(*   - the control thread: setup, start, getMap, ~Mapper (step by step)    *)
(*   - one data-provider thread running the callback of setup()            *)
(*   - the worker thread running loop()                                    *)
(* Each shared-memory access of loop() and of ~Mapper() is one step, so    *)
(* every interleaving of the worker with teardown and with the callback    *)
(* is explored.  stop_ is a plain bool: a racing read returns the old or   *)
(* the new value, which is what the interleaving of single reads yields.   *)
(***************************************************************************)
EXTENDS Naturals, Integers, Sequences, FiniteSets, TLC

\* ------------------------------------------------------------------ bounds
MaxObs == 2          \* observations delivered by the provider in one run
MaxTime == 2         \* clock ticks in one run
TicksPerSecond == 2  \* clock resolution: ticks making up 1.0 second

\* ---------------------------------------------------------- configuration
Rates == {0, 1, 2}                       \* values of the publish_rate param
ProviderRegistry == {"laser"}            \* keys of data_providers
PublisherRegistry == {"cloud", "grid"}   \* keys of publishers
ProviderNameLists == {<<>>, <<"laser">>, <<"laser", "sonar">>}
PublisherNameLists == {<<>>, <<"cloud">>, <<"cloud", "grid">>, <<"cloud", "ghost">>}
DataTypes == {"Pointcloud3d", "Odometry"}
\* the registered publishers that are PointcloudPublishers
PointcloudPublishers == {"cloud"}
\* arguments of saveMap(path): a directory that can be created and written,
\* one that cannot be created, and an existing one that cannot be written
Paths == {"fresh", "blocked", "readonly"}
CreatablePaths == {"fresh"}
WritablePaths == {"fresh"}

VARIABLES
  setupState,       \* "none" | "ok" | "failed" (setup threw)
  rate,             \* value read for publish_rate (setup local, kept)
  data_provider_names,  \* value read for data_providers (setup local, kept)
  publisher_names,      \* value read for map_publishers (setup local, kept)
  publish_period_,  \* in ticks
  handles_,         \* sequence of connected provider names
  publishers_,      \* sequence of consumer names
  map_,             \* [valid, content, inner, corrupt]
  mutating,         \* threads currently inside a mutation of the map
  queue_,           \* sequence of observation ids
  stop_,
  notify_,          \* TRUE: a notify_one reached the waiting worker
  pc,               \* worker position in loop()
  start, pub, n, now, cur, p,   \* locals of loop() / index of publish()
  d_pc,             \* position of the thread running ~Mapper()
  cb_pc,            \* position of the provider thread in the callback
  ctl_pc,           \* position of the control thread in getMap()
  clock,            \* cslibs_time::Time::now()
  obsType,          \* obsType[i]: type of the i-th delivered observation
  accepted,         \* history: ids in the order they were emplaced
  applied,          \* history: ids in the order process() was called
  published,        \* history: <<consumer, snapshot, outcome>> per delivery
  lookup_failed,    \* the last tf_->lookupTransform of process() failed
  dirs,             \* file system: the paths that are directories
  lastSave          \* history: the last saveMap(path) on the map as it is now

vars == <<setupState, rate, data_provider_names, publisher_names, publish_period_, handles_, publishers_, map_,
          mutating, queue_, stop_, notify_, pc, start, pub, n, now, cur, p,
          d_pc, cb_pc, ctl_pc, clock, obsType, accepted, applied, published,
          lookup_failed, dirs, lastSave>>

cfgVars == <<setupState, rate, data_provider_names, publisher_names, publish_period_, handles_, publishers_>>
loopVars == <<pc, start, pub, n, now, cur, p>>
histVars == <<obsType, accepted, applied, published, lookup_failed>>

\* ------------------------------------------------------------- operators

\* mutant: a rate of 0 taken to mean "never due"
PeriodOf_never(r) == IF r = 0 THEN MaxTime + TicksPerSecond + 1 ELSE TicksPerSecond \div r

\* mapper.hpp:70   rate == 0.0 ? 0.0 : (1.0 / rate)
PeriodOf(r) == IF r = 0 THEN 0 ELSE TicksPerSecond \div r

\* mutant: the filter lets every type through
uses_any(type) == type \in DataTypes

\* pointcloud_publisher.cpp:112-115
uses(type) == type = "Pointcloud3d"

\* mapper.hpp:83-91: connect providers in order, stop at the first missing
RECURSIVE ConnectProviders(_, _)
ConnectProviders(names, acc) ==
  IF names = <<>> THEN [handles |-> acc, ok |-> TRUE]
  ELSE IF Head(names) \notin ProviderRegistry
       THEN [handles |-> acc, ok |-> FALSE]
       ELSE ConnectProviders(Tail(names), Append(acc, Head(names)))

\* mutant: a publisher name that is not registered is skipped
RECURSIVE CollectPublishers_lenient(_, _)
CollectPublishers_lenient(names, acc) ==
  IF names = <<>> THEN [pubs |-> acc, ok |-> TRUE]
  ELSE IF Head(names) \notin PublisherRegistry
       THEN CollectPublishers_lenient(Tail(names), acc)
       ELSE CollectPublishers_lenient(Tail(names), Append(acc, Head(names)))

\* mapper.hpp:99-112: collect publishers in order, stop at the first missing
RECURSIVE CollectPublishers(_, _)
CollectPublishers(names, acc) ==
  IF names = <<>> THEN [pubs |-> acc, ok |-> TRUE]
  ELSE IF Head(names) \notin PublisherRegistry
       THEN [pubs |-> acc, ok |-> FALSE]
       ELSE CollectPublishers(Tail(names), Append(acc, Head(names)))

\* pointcloud_publisher.cpp:103-110
NewMap == [valid |-> TRUE, content |-> <<>>, inner |-> 0, corrupt |-> FALSE]

\* map_ before setupMap(): the empty pointer
NoMap == [valid |-> FALSE, content |-> <<>>, inner |-> 0, corrupt |-> FALSE]

\* octomap updateInnerOccupancy(): inner nodes recomputed from the leaves
UpdateInner(m) == [m EXCEPT !.inner = Len(m.content)]

\* insertPointCloud(cloud, origin, -1, lazy_eval = true, ...): leaves only
InsertCloud(m, id) == [m EXCEPT !.content = Append(m.content, id)]

\* mutant: the newest element is handed out instead of the oldest
QueueFront_newest(q) == q[Len(q)]

\* mapper.hpp:173 (and 44)  queue_.pop(): the element returned, the rest kept
QueueFront(q) == Head(q)
QueuePopped(q) == Tail(q)

\* mutant: the loop over the publishers is left at the first failed delivery
NextPublisher_abort(i, outcome) ==
  IF outcome = "not_published" THEN Len(publishers_) + 1 ELSE i + 1

\* mapper.hpp:193  for (auto &p : publishers_): the publisher visited next
NextPublisher(i, outcome) == i + 1

\* mutant: the result of lookupTransform is ignored
LookupBranch_unchecked(outcome) ==
  IF outcome \in {"insert", "tf_fail"} THEN "insert" ELSE "after"

\* pointcloud_publisher.cpp:124-132  if (tf_->lookupTransform(..)) and
\* if (points): where process() goes on
LookupBranch(outcome) == IF outcome = "insert" THEN "insert" ELSE "after"

\* mutant: publication waits until the backlog has been drained
Due_drained(t, due) == t >= due /\ queue_ = <<>>

\* mapper.hpp:176  if (now >= pub)
Due(t, due) == t >= due

\* mutant: strictly periodic, the next due time counts from the previous one
NextDue_strict(t, due, period) == due + period

\* mapper.hpp:180  pub = now + publish_period_
NextDue(t, due, period) == t + period

\* mutant: an untimed wait, only a notification ends it
WaitReturns_untimed(notified, timeout) == notified

\* mapper.hpp:167  notify_.wait_for(l, pd): ended by a notification or by
\* the timeout
WaitReturns(notified, timeout) == notified \/ timeout

\* pointcloud_publisher.cpp:13-17, 37-44  how p->publish(map, time) ends for
\* the map of this mapper: a PointcloudPublisher takes NDT maps only, prints
\* "Got wrong map type!" and returns; another publisher sends the message
DeliveryOutcome(consumer) ==
  IF consumer \in PointcloudPublishers THEN "not_published" ELSE "published"

\* mapper.hpp:60-65  the locks the provider callback acquires
CallbackLocks_mutex == {"mutex_"}

CallbackLocks == {}

\* mapper.hpp:163-167  lock_t l(mutex_) is taken before the loop, released by
\* wait_for while it waits and by the destructor of l when loop() returns
LocksHeldByWorker ==
  IF pc \in {"head", "towait", "has", "stopchk", "pop", "process", "insert",
             "after", "publish"}
  THEN {"mutex_"} ELSE {}

\* pointcloud_publisher.cpp:175  what map_->get()->write(stream) puts in the
\* file: the nodes as they are
Serialize(m) == <<m.content, m.inner, m.corrupt>>

\* pointcloud_publisher.cpp:175  the map after write(): write() is const
MapAfterWrite_updating(m) == UpdateInner(m)

MapAfterWrite(m) == m

NoSave ==
  [made |-> FALSE, path |-> "", result |-> "", content |-> <<>>,
   again |-> FALSE]

\* a step that is not a saveMap: the file system stays, and the last save
\* is forgotten when the step changes the map
NoSaveStep ==
  /\ dirs' = dirs
  /\ lastSave' = IF map_' = map_ THEN lastSave ELSE NoSave

Crashed == pc = "crashed" \/ d_pc = "crashed"
StopRequested == d_pc # "alive"
Destroyed == d_pc = "done"

\* ------------------------------------------------------------------ Init
Init ==
  /\ setupState = "none" /\ rate = 0 /\ publish_period_ = 0
  /\ data_provider_names = <<>> /\ publisher_names = <<>>
  /\ handles_ = <<>> /\ publishers_ = <<>>
  /\ map_ = NoMap /\ mutating = {}
  /\ queue_ = <<>>
  /\ stop_ \in BOOLEAN          \* bool stop_; has no initializer
  /\ notify_ = FALSE
  /\ pc = "none" /\ start = 0 /\ pub = 0 /\ n = 0 /\ now = 0 /\ cur = 0 /\ p = 0
  /\ d_pc = "alive" /\ cb_pc = "idle" /\ ctl_pc = "idle"
  /\ clock = 0
  /\ obsType = <<>> /\ accepted = <<>> /\ applied = <<>> /\ published = <<>>
  /\ lookup_failed = FALSE
  /\ dirs = {"readonly"} /\ lastSave = NoSave


\* -------------------------------------------------------- control thread

\* mapper.hpp:55-117  Mapper::setup, whole, for one choice of the parameters
Setup(r, dn, pn) ==
  LET conn == ConnectProviders(dn, <<>>)
      coll == CollectPublishers(pn, <<>>)
  IN
  /\ setupState = "none" /\ d_pc = "alive" /\ ~Crashed
  /\ rate' = r
  /\ publish_period_' = PeriodOf(r)
  /\ data_provider_names' = dn
  /\ publisher_names' = pn
  /\ IF dn = <<>>
     THEN \* line 79-80: throw, nothing connected
          /\ setupState' = "failed"
          /\ UNCHANGED <<handles_, publishers_, map_>>
     ELSE IF ~conn.ok
     THEN \* line 86-87: throw, the earlier providers stay connected
          /\ setupState' = "failed"
          /\ handles_' = conn.handles
          /\ UNCHANGED <<publishers_, map_>>
     ELSE IF ~coll.ok
     THEN \* line 104-105: throw, the earlier publishers stay in the list
          /\ setupState' = "failed"
          /\ handles_' = conn.handles
          /\ publishers_' = coll.pubs
          /\ UNCHANGED map_
     ELSE \* line 115: setupMap() resets the map and returns true
          /\ setupState' = "ok"
          /\ handles_' = conn.handles
          /\ publishers_' = coll.pubs
          /\ map_' = NewMap
  /\ UNCHANGED <<mutating, queue_, stop_, notify_, d_pc, cb_pc, ctl_pc, clock>>
  /\ UNCHANGED loopVars /\ UNCHANGED histVars
  /\ NoSaveStep

\* mapper.hpp:119-123  Mapper::start
Start ==
  /\ setupState = "ok" /\ pc = "none" /\ d_pc = "alive" /\ ctl_pc = "idle"
  /\ stop_' = FALSE
  /\ pc' = "init"
  /\ UNCHANGED cfgVars /\ UNCHANGED histVars
  /\ UNCHANGED <<map_, mutating, queue_, notify_, start, pub, n, now, cur, p,
                 d_pc, cb_pc, ctl_pc, clock>>
  /\ NoSaveStep

\* pointcloud_publisher.cpp:97-99  getMap() called by the control layer:
\* updateInnerOccupancy() starts writing the inner nodes
GetMapBegin ==
  /\ setupState = "ok" /\ d_pc = "alive" /\ ctl_pc = "idle" /\ ~Crashed
  /\ ctl_pc' = "getMap"
  /\ mutating' = mutating \cup {"control"}
  /\ \E c \in (IF mutating # {} THEN BOOLEAN ELSE {FALSE}) :
        map_' = [map_ EXCEPT !.corrupt = @ \/ c]
  /\ UNCHANGED cfgVars /\ UNCHANGED loopVars /\ UNCHANGED histVars
  /\ UNCHANGED <<queue_, stop_, notify_, d_pc, cb_pc, clock>>
  /\ NoSaveStep

\* pointcloud_publisher.cpp:99-100  updateInnerOccupancy() done, return map_
GetMapEnd ==
  /\ ctl_pc = "getMap" /\ ~Crashed
  /\ ctl_pc' = "idle"
  /\ map_' = UpdateInner(map_)
  /\ mutating' = mutating \ {"control"}
  /\ UNCHANGED cfgVars /\ UNCHANGED loopVars /\ UNCHANGED histVars
  /\ UNCHANGED <<queue_, stop_, notify_, d_pc, cb_pc, clock>>
  /\ NoSaveStep

\* mapper.hpp:125-129, 197-204, pointcloud_publisher.cpp:151-186
\* saveMap(path), whole: "No Map." returns true and writes nothing;
\* create_directories throws where the directory cannot be made; the file
\* map.ot is opened and the tree written to it. A save that runs while
\* another thread writes the tree reads it torn: it is not kept in lastSave.
SaveMap(path) ==
  LET isdir  == path \in dirs \/ path \in CreatablePaths
      result == IF ~map_.valid THEN "true"
                ELSE IF ~isdir THEN "threw"
                ELSE IF path \notin WritablePaths THEN "false"
                ELSE "true"
      wrote  == map_.valid /\ result = "true"
  IN
  /\ d_pc = "alive" /\ ctl_pc = "idle" /\ ~Crashed
  /\ dirs' = IF map_.valid /\ isdir THEN dirs \cup {path} ELSE dirs
  /\ map_' = IF wrote THEN MapAfterWrite(map_) ELSE map_
  /\ lastSave' = IF mutating # {} THEN NoSave
                 ELSE [made |-> TRUE, path |-> path, result |-> result,
                       content |-> IF wrote THEN Serialize(map_) ELSE <<>>,
                       again |-> lastSave.made /\ lastSave.path = path]
  /\ UNCHANGED cfgVars /\ UNCHANGED loopVars /\ UNCHANGED histVars
  /\ UNCHANGED <<mutating, queue_, stop_, notify_, d_pc, cb_pc, ctl_pc, clock>>

\* ------------------------------------------------------------- ~Mapper()

\* mapper.hpp:40   stop_ = true
DtorSetStop ==
  /\ d_pc = "alive" /\ ctl_pc = "idle" /\ ~Crashed
  /\ stop_' = TRUE
  /\ d_pc' = "d_notify"
  /\ UNCHANGED cfgVars /\ UNCHANGED loopVars /\ UNCHANGED histVars
  /\ UNCHANGED <<map_, mutating, queue_, notify_, cb_pc, ctl_pc, clock>>
  /\ NoSaveStep

\* mapper.hpp:41   notify_.notify_one(): reaches the worker only if it waits
DtorNotify ==
  /\ d_pc = "d_notify" /\ ~Crashed
  /\ notify_' = (notify_ \/ pc = "wait")
  /\ d_pc' = "d_has"
  /\ UNCHANGED cfgVars /\ UNCHANGED loopVars /\ UNCHANGED histVars
  /\ UNCHANGED <<map_, mutating, queue_, stop_, cb_pc, ctl_pc, clock>>
  /\ NoSaveStep

\* mapper.hpp:43   while (queue_.hasElements())
DtorHasElements ==
  /\ d_pc = "d_has" /\ ~Crashed
  /\ d_pc' = IF queue_ # <<>> THEN "d_pop" ELSE "d_joinable"
  /\ UNCHANGED cfgVars /\ UNCHANGED loopVars /\ UNCHANGED histVars
  /\ UNCHANGED <<map_, mutating, queue_, stop_, notify_, cb_pc, ctl_pc, clock>>
  /\ NoSaveStep

\* mapper.hpp:44   queue_.pop(); front()/pop() of an empty deque is undefined
DtorPop ==
  /\ d_pc = "d_pop" /\ ~Crashed
  /\ IF queue_ # <<>>
     THEN /\ queue_' = QueuePopped(queue_)
          /\ d_pc' = "d_has"
     ELSE /\ queue_' = queue_
          /\ d_pc' \in {"crashed", "d_has"}
  /\ UNCHANGED cfgVars /\ UNCHANGED loopVars /\ UNCHANGED histVars
  /\ UNCHANGED <<map_, mutating, stop_, notify_, cb_pc, ctl_pc, clock>>
  /\ NoSaveStep

\* mapper.hpp:46   if (thread_.joinable())
DtorJoinable ==
  /\ d_pc = "d_joinable" /\ ~Crashed
  /\ d_pc' = IF pc # "none" THEN "d_join" ELSE "done"
  /\ UNCHANGED cfgVars /\ UNCHANGED loopVars /\ UNCHANGED histVars
  /\ UNCHANGED <<map_, mutating, queue_, stop_, notify_, cb_pc, ctl_pc, clock>>
  /\ NoSaveStep

\* mapper.hpp:47   thread_.join() returns once loop() has returned
DtorJoin ==
  /\ d_pc = "d_join" /\ pc = "exit" /\ ~Crashed
  /\ d_pc' = "done"
  /\ UNCHANGED cfgVars /\ UNCHANGED loopVars /\ UNCHANGED histVars
  /\ UNCHANGED <<map_, mutating, queue_, stop_, notify_, cb_pc, ctl_pc, clock>>
  /\ NoSaveStep

\* ------------------------------------------------- data provider thread

\* mapper.hpp:60-62  callback: uses(data) and queue_.emplace(data)
Deliver(type) ==
  /\ handles_ # <<>> /\ ~Destroyed /\ ~Crashed
  /\ cb_pc = "idle" /\ Len(obsType) < MaxObs
  /\ CallbackLocks \cap LocksHeldByWorker = {}
  /\ obsType' = Append(obsType, type)
  /\ IF uses(type)
     THEN /\ queue_' = Append(queue_, Len(obsType) + 1)
          /\ accepted' = Append(accepted, Len(obsType) + 1)
          /\ cb_pc' = "notify"
     ELSE UNCHANGED <<queue_, accepted, cb_pc>>
  /\ UNCHANGED cfgVars /\ UNCHANGED loopVars
  /\ UNCHANGED <<map_, mutating, stop_, notify_, d_pc, ctl_pc, clock,
                 applied, published, lookup_failed>>
  /\ NoSaveStep

\* mapper.hpp:63   notify_.notify_one()
CallbackNotify ==
  /\ cb_pc = "notify" /\ ~Crashed
  /\ CallbackLocks \cap LocksHeldByWorker = {}
  /\ notify_' = (notify_ \/ pc = "wait")
  /\ cb_pc' = "idle"
  /\ UNCHANGED cfgVars /\ UNCHANGED loopVars /\ UNCHANGED histVars
  /\ UNCHANGED <<map_, mutating, queue_, stop_, d_pc, ctl_pc, clock>>
  /\ NoSaveStep

\* ----------------------------------------------------------------- time
\* the program sees time only where it reads the clock (lines 158, 175):
\* the time gone by since the last reading is accounted for before the next
Tick ==
  /\ clock < MaxTime /\ ~Crashed /\ ~Destroyed
  /\ pc \in {"init", "after"}
  /\ clock' = clock + 1
  /\ UNCHANGED cfgVars /\ UNCHANGED loopVars /\ UNCHANGED histVars
  /\ UNCHANGED <<map_, mutating, queue_, stop_, notify_, d_pc, cb_pc, ctl_pc>>
  /\ NoSaveStep

\* ------------------------------------------------------ worker: loop()
sharedByLoop == <<map_, mutating, queue_, stop_, notify_>>
otherThreads == <<d_pc, cb_pc, ctl_pc, clock>>

\* mapper.hpp:156-163  start = now(); pub = start + publish_period_; n = 0
LoopInit ==
  /\ pc = "init" /\ ~Crashed
  /\ start' = clock
  /\ pub' = clock + publish_period_
  /\ n' = 0
  /\ pc' = "head"
  /\ UNCHANGED <<now, cur, p>>
  /\ UNCHANGED cfgVars /\ UNCHANGED histVars
  /\ UNCHANGED sharedByLoop /\ UNCHANGED otherThreads
  /\ NoSaveStep

\* mapper.hpp:164   while (!stop_)
LoopHead ==
  /\ pc = "head" /\ ~Crashed
  /\ pc' = IF stop_ THEN "exit" ELSE "empty"
  /\ UNCHANGED <<start, pub, n, now, cur, p>>
  /\ UNCHANGED cfgVars /\ UNCHANGED histVars
  /\ UNCHANGED sharedByLoop /\ UNCHANGED otherThreads
  /\ NoSaveStep

\* mapper.hpp:166   if (queue_.empty())
CheckEmpty ==
  /\ pc = "empty" /\ ~Crashed
  /\ pc' = IF queue_ = <<>> THEN "towait" ELSE "has"
  /\ notify_' = FALSE
  /\ UNCHANGED <<start, pub, n, now, cur, p>>
  /\ UNCHANGED cfgVars /\ UNCHANGED histVars
  /\ UNCHANGED <<map_, mutating, queue_, stop_>> /\ UNCHANGED otherThreads
  /\ NoSaveStep

\* mapper.hpp:167   notify_.wait_for(l, pd) starts to wait; a notify_one
\* issued before this point (the callback holds no lock) is not seen
WaitBegin ==
  /\ pc = "towait" /\ ~Crashed
  /\ pc' = "wait"
  /\ notify_' = FALSE
  /\ UNCHANGED <<start, pub, n, now, cur, p>>
  /\ UNCHANGED cfgVars /\ UNCHANGED histVars
  /\ UNCHANGED <<map_, mutating, queue_, stop_>> /\ UNCHANGED otherThreads
  /\ NoSaveStep

\* mapper.hpp:167   wait_for returns: notified, or timed out after pd (a
\* finite int count of nanoseconds, line 160)
WaitReturn ==
  /\ pc = "wait" /\ ~Crashed
  /\ \E timeout \in BOOLEAN : WaitReturns(notify_, timeout)
  /\ pc' = "has"
  /\ notify_' = FALSE
  /\ UNCHANGED <<start, pub, n, now, cur, p>>
  /\ UNCHANGED cfgVars /\ UNCHANGED histVars
  /\ UNCHANGED <<map_, mutating, queue_, stop_>> /\ UNCHANGED otherThreads
  /\ NoSaveStep

\* mapper.hpp:169   while (queue_.hasElements())
HasElements ==
  /\ pc = "has" /\ ~Crashed
  /\ pc' = IF queue_ # <<>> THEN "stopchk" ELSE "head"
  /\ UNCHANGED <<start, pub, n, now, cur, p>>
  /\ UNCHANGED cfgVars /\ UNCHANGED histVars
  /\ UNCHANGED sharedByLoop /\ UNCHANGED otherThreads
  /\ NoSaveStep

\* mapper.hpp:170-171   if (stop_) break;
StopCheck ==
  /\ pc = "stopchk" /\ ~Crashed
  /\ pc' = IF stop_ THEN "head" ELSE "pop"
  /\ UNCHANGED <<start, pub, n, now, cur, p>>
  /\ UNCHANGED cfgVars /\ UNCHANGED histVars
  /\ UNCHANGED sharedByLoop /\ UNCHANGED otherThreads
  /\ NoSaveStep

\* mapper.hpp:173   process(queue_.pop()): the pop and the entry to process.
\* Popping an empty deque is undefined: the build either faults or hands
\* back the stale bits of an element that was in the deque before.
Pop ==
  /\ pc = "pop" /\ ~Crashed
  /\ IF queue_ # <<>>
     THEN /\ cur' = QueueFront(queue_)
          /\ queue_' = QueuePopped(queue_)
          /\ applied' = Append(applied, QueueFront(queue_))
          /\ pc' = "process"
     ELSE \/ /\ pc' = "crashed"
             /\ UNCHANGED <<cur, queue_, applied>>
          \/ \E i \in 1..Len(accepted) :
               /\ cur' = accepted[i]
               /\ applied' = Append(applied, accepted[i])
               /\ pc' = "process"
               /\ queue_' = queue_
  /\ UNCHANGED <<start, pub, n, now, p>>
  /\ UNCHANGED cfgVars /\ UNCHANGED <<obsType, accepted, published, lookup_failed>>
  /\ UNCHANGED <<map_, mutating, stop_, notify_>> /\ UNCHANGED otherThreads
  /\ NoSaveStep

\* pointcloud_publisher.cpp:117-132  process(): transform lookup and points;
\* on success insertPointCloud starts writing the map
ProcessLookup(outcome) ==
  /\ pc = "process" /\ ~Crashed
  /\ pc' = LookupBranch(outcome)
  /\ IF LookupBranch(outcome) = "insert"
     THEN /\ mutating' = mutating \cup {"worker"}
          /\ \E c \in (IF mutating # {} THEN BOOLEAN ELSE {FALSE}) :
                map_' = [map_ EXCEPT !.corrupt = @ \/ c]
     ELSE UNCHANGED <<map_, mutating>>
  /\ lookup_failed' = (outcome = "tf_fail")
  /\ UNCHANGED <<start, pub, n, now, cur, p>>
  /\ UNCHANGED cfgVars /\ UNCHANGED <<obsType, accepted, applied, published>>
  /\ UNCHANGED <<queue_, stop_, notify_>> /\ UNCHANGED otherThreads
  /\ NoSaveStep

\* pointcloud_publisher.cpp:146   insertPointCloud(...) done
ProcessInsert ==
  /\ pc = "insert" /\ ~Crashed
  /\ map_' = InsertCloud(map_, cur)
  /\ mutating' = mutating \ {"worker"}
  /\ pc' = "after"
  /\ UNCHANGED <<start, pub, n, now, cur, p>>
  /\ UNCHANGED cfgVars /\ UNCHANGED histVars
  /\ UNCHANGED <<queue_, stop_, notify_>> /\ UNCHANGED otherThreads
  /\ NoSaveStep

\* mapper.hpp:174-177   ++n; now = Time::now(); if (now >= pub) publish();
AfterProcess ==
  /\ pc = "after" /\ ~Crashed
  /\ n' = n + 1
  /\ now' = clock
  /\ IF Due(clock, pub)
     THEN pc' = "publish" /\ p' = 1
     ELSE pc' = "has" /\ p' = p
  /\ UNCHANGED <<start, pub, cur>>
  /\ UNCHANGED cfgVars /\ UNCHANGED histVars
  /\ UNCHANGED sharedByLoop /\ UNCHANGED otherThreads
  /\ NoSaveStep

\* mapper.hpp:193-194   one iteration of publish(): p->publish(getMap(), ..)
\* getMap() (pointcloud_publisher.cpp:97-101) updates the inner occupancy
\* and doPublish (pointcloud_publisher.cpp:37-80) sends or reports and returns
PublishOne ==
  /\ pc = "publish" /\ p <= Len(publishers_) /\ ~Crashed
  /\ \E c \in (IF mutating # {} THEN BOOLEAN ELSE {FALSE}) :
        map_' = [UpdateInner(map_) EXCEPT !.corrupt = @ \/ c]
  /\ published' = Append(published, <<publishers_[p], Len(map_.content),
                                      DeliveryOutcome(publishers_[p])>>)
  /\ p' = NextPublisher(p, DeliveryOutcome(publishers_[p]))
  /\ UNCHANGED <<pc, start, pub, n, now, cur>>
  /\ UNCHANGED cfgVars /\ UNCHANGED <<obsType, accepted, applied, lookup_failed>>
  /\ UNCHANGED <<mutating, queue_, stop_, notify_>> /\ UNCHANGED otherThreads
  /\ NoSaveStep

\* mapper.hpp:178-180   n = 0; start = now; pub = now + publish_period_;
PublishDone ==
  /\ pc = "publish" /\ p > Len(publishers_) /\ ~Crashed
  /\ n' = 0
  /\ start' = now
  /\ pub' = NextDue(now, pub, publish_period_)
  /\ pc' = "has"
  /\ UNCHANGED <<now, cur, p>>
  /\ UNCHANGED cfgVars /\ UNCHANGED histVars
  /\ UNCHANGED sharedByLoop /\ UNCHANGED otherThreads
  /\ NoSaveStep

\* -------------------------------------------------------------- the system
Worker ==
  \/ LoopInit \/ LoopHead \/ CheckEmpty \/ WaitBegin \/ WaitReturn \/ HasElements
  \/ StopCheck \/ Pop \/ (\E o \in {"tf_fail", "no_points", "insert"} : ProcessLookup(o))
  \/ ProcessInsert \/ AfterProcess \/ PublishOne \/ PublishDone

Teardown ==
  DtorNotify \/ DtorHasElements \/ DtorPop \/ DtorJoinable \/ DtorJoin

Next ==
  \/ \E r \in Rates, dn \in ProviderNameLists, pn \in PublisherNameLists :
        Setup(r, dn, pn)
  \/ Start
  \/ GetMapBegin
  \/ GetMapEnd
  \/ DtorSetStop
  \/ Teardown
  \/ \E t \in DataTypes : Deliver(t)
  \/ CallbackNotify
  \/ Tick
  \/ Worker

Spec == Init /\ [][Next]_vars

\* the scheduler runs every thread that can take a step: the worker, the
\* thread inside ~Mapper() and the notify of a callback already under way
FairSpec == Spec /\ WF_vars(Worker) /\ WF_vars(Teardown) /\ WF_vars(CallbackNotify)

\* the pipeline of a mapper on which no stop is ever requested (~Mapper()
\* does not run); getMap() of the control layer, which touches neither the
\* queue nor the loop, is left out
NextRunning ==
  \/ \E r \in Rates, dn \in ProviderNameLists, pn \in PublisherNameLists :
        Setup(r, dn, pn)
  \/ Start
  \/ \E t \in DataTypes : Deliver(t)
  \/ CallbackNotify
  \/ Tick
  \/ Worker

RunningFairSpec ==
  Init /\ [][NextRunning]_vars /\ WF_vars(Worker) /\ WF_vars(CallbackNotify)

\* the mapper with its map saved by the control layer; teardown and the
\* passing of time, which touch neither the map nor the files, are left out
\* (with publish_rate 0 the worker publishes after every observation)
NextPersist ==
  \/ \E r \in Rates, dn \in ProviderNameLists, pn \in PublisherNameLists :
        Setup(r, dn, pn)
  \/ Start
  \/ GetMapBegin
  \/ GetMapEnd
  \/ \E path \in Paths : SaveMap(path)
  \/ \E t \in DataTypes : Deliver(t)
  \/ CallbackNotify
  \/ Worker

PersistSpec == Init /\ [][NextPersist]_vars

\* ================================================================== claims

WorkerAlive == pc \notin {"none", "exit"}

\* C1: once teardown has set the stop flag, the worker does not begin
\* applying any further observation (no call to process starts), even if
\* observations are still queued.
C1_NoProcessAfterStop ==
  [][StopRequested => applied' = applied]_vars

\* C2: once teardown has set the stop flag, the worker never calls publish
\* again, also when the stop arrives during an application with the cadence
\* already due.
C2_NoPublishAfterStop ==
  [][StopRequested => ~(pc # "publish" /\ pc' = "publish")]_vars

\* C3: for a started mapper with cadence T > 0 and at least one consumer, if
\* no observation is delivered and no stop is requested, a publication
\* eventually occurs (once T has elapsed since start).
C3_CadenceLiveness ==
  (/\ pc \notin {"none", "init"} /\ publish_period_ > 0 /\ publishers_ # <<>>
   /\ obsType = <<>> /\ ~StopRequested)
  ~> (published # <<>> \/ obsType # <<>> \/ StopRequested)

\* C4: while no stop is requested, the accepted observations are applied in
\* exactly the order in which they were accepted: what has been applied,
\* followed by what is still queued, is the accepted sequence (nothing is
\* duplicated, dropped or reordered).
C4_FifoApplication ==
  ~StopRequested => applied \o queue_ = accepted

C4_Witness ==
  ~StopRequested /\ Len(applied) >= 2 /\ applied = accepted

\* C5: an observation for which uses() returns false (for this mapper: any
\* observation that is not a Pointcloud3d) is never enqueued (its delivery
\* leaves the queue unchanged) and is never passed to process.
C5_FilterCorrectness ==
  /\ [](\A i \in 1..Len(obsType) :
          obsType[i] # "Pointcloud3d" =>
             /\ \A k \in 1..Len(queue_) : queue_[k] # i
             /\ \A k \in 1..Len(applied) : applied[k] # i)
  /\ [][(/\ Len(obsType') = Len(obsType) + 1
         /\ obsType'[Len(obsType')] # "Pointcloud3d")
          => queue_' = queue_]_vars

C5_Witness ==
  /\ Len(obsType) = 2 /\ obsType[1] # "Pointcloud3d"
  /\ applied = <<2>> /\ queue_ = <<>>

\* C6: the drain of ~Mapper() (its hasElements/pop loop) never runs while
\* the worker thread is still alive: it comes after the join.
C6_DrainAfterJoin ==
  d_pc \in {"d_has", "d_pop"} => ~WorkerAlive

\* C7: after a stop is requested the worker thread eventually exits and
\* teardown returns with the worker terminated.  (A behaviour that reaches
\* Crashed stays there: the process has faulted and no thread runs on.)
C7_ShutdownTerminates ==
  StopRequested ~> (d_pc = "done" /\ ~WorkerAlive)

\* C8 (as stated): with a configured rate of 0 the worker never calls
\* publish.
C8_RateZeroNeverPublishes ==
  (setupState = "ok" /\ rate = 0) => pc # "publish"

\* C8 (amended): a configured rate of 0 makes the cadence zero, not
\* infinite: every applied observation is followed at once by a call of
\* publish.
C8_RateZeroPublishesEachTime ==
  /\ []((setupState = "ok" /\ rate = 0) => publish_period_ = 0)
  /\ [][(setupState = "ok" /\ rate = 0 /\ pc = "after" /\ pc' # pc)
          => pc' = "publish"]_vars

C8_Witness ==
  setupState = "ok" /\ rate = 0 /\ pc = "publish" /\ Len(applied) = 2

\* C9: no two mutations of the map run concurrently and every mutation of
\* the map runs on the worker thread.
C9_SingleWriter ==
  Cardinality(mutating) <= 1 /\ mutating \subseteq {"worker"}

\* C10: a call of getMap() leaves the state of the map unchanged.
C10_GetMapReadOnly ==
  [][(ctl_pc = "getMap" /\ ctl_pc' = "idle") => map_' = map_]_vars

\* C11: when publication is due and the delivery to one consumer fails,
\* every registered consumer is still handed that same snapshot, in
\* registration order, and the worker loop goes on to the next queued
\* observation: publish() is left only after the last consumer, and back
\* into the drain loop.
C11_DeliveryFailureIsolation ==
  /\ [](pc = "publish" =>
          /\ p - 1 <= Len(published)
          /\ \A i \in 1..(p - 1) :
               LET e == published[Len(published) - (p - 1) + i]
               IN  e[1] = publishers_[i] /\ e[2] = Len(map_.content))
  /\ [][(pc = "publish" /\ pc' # "publish")
          => (p = Len(publishers_) + 1 /\ pc' = "has")]_vars

C11_Witness ==
  /\ Len(published) >= 2
  /\ published[1] = <<"cloud", 1, "not_published">>
  /\ published[2] = <<"grid", 1, "published">>
  /\ map_.content = <<1, 2>>

\* C12: when the transform lookup for an observation fails, process leaves
\* the map unchanged and returns to the worker loop without an error, and
\* the worker goes on from there to the cadence check and the next queued
\* observation.
C12_TransformFailureIsolation ==
  /\ [][(pc = "process" /\ pc' # pc /\ lookup_failed')
          => (map_' = map_ /\ pc' = "after")]_vars
  /\ [][(lookup_failed /\ pc = "after" /\ pc' # pc)
          => pc' \in {"has", "publish"}]_vars

C12_Witness ==
  /\ lookup_failed /\ pc = "process" /\ cur = 2
  /\ applied = <<1, 2>> /\ map_.content = <<>>

\* C13: setup fails exactly when the configured source list is empty, or a
\* configured source name is not in the source registry, or a configured
\* consumer name is not in the consumer registry; in particular a non-empty,
\* resolvable source list with an empty consumer list succeeds.
C13_SetupOutcome ==
  setupState # "none" =>
    (setupState = "failed" <=>
       \/ data_provider_names = <<>>
       \/ \E i \in 1..Len(data_provider_names) :
            data_provider_names[i] \notin ProviderRegistry
       \/ \E i \in 1..Len(publisher_names) :
            publisher_names[i] \notin PublisherRegistry)

C13_Witness ==
  /\ setupState = "ok" /\ data_provider_names # <<>> /\ publisher_names = <<>>
  /\ handles_ = data_provider_names

\* C14: the worker checks the cadence after every single applied
\* observation: if the cadence is due at that check, publish is called
\* before the next queued observation is applied, however many are still
\* queued; so an observation is applied on top of unpublished ones only if
\* the cadence was not yet due at the check before it.
C14_BacklogResponsiveness ==
  /\ [][(pc = "after" /\ pc' # pc /\ now' >= pub) => pc' = "publish"]_vars
  /\ []((pc \in {"has", "stopchk", "pop"} /\ n > 0) => now < pub)

C14_Witness ==
  pc = "publish" /\ publish_period_ > 0 /\ queue_ # <<>> /\ ~StopRequested

\* C17: each publication sets the next due time to the time of that
\* publication plus the cadence (not the previous due time plus the
\* cadence), so a publication never comes sooner than one cadence after the
\* previous one (start holds the time of the previous publication).
C17_CadenceRescheduling ==
  /\ [][(pc = "publish" /\ pc' # "publish")
          => (pub' = now + publish_period_ /\ start' = now)]_vars
  /\ [](pc = "publish" => now >= start + publish_period_)

C17_Witness ==
  /\ pc = "publish" /\ publish_period_ > 0
  /\ n = 1 /\ Len(applied) = 2 /\ now >= start + publish_period_

\* C18: the worker never removes an element from an empty queue: whenever it
\* is about to execute queue_.pop() the queue holds at least one element.
C18_PopFindsElement ==
  pc = "pop" => queue_ # <<>>

\* C20: whenever setup has failed, no source callback of that setup is still
\* connected and no consumer is left in the consumer list, so nothing can
\* be enqueued on that instance.
C20_FailedSetupUnconnected ==
  setupState = "failed" => (handles_ = <<>> /\ publishers_ = <<>> /\ queue_ = <<>>)

\* C19: if stop is never requested, every accepted observation of a started
\* mapper is eventually applied, also when its notification was issued
\* while the worker was not waiting.
C19_EventuallyApplied ==
  \A i \in 1..MaxObs :
    (pc # "none" /\ \E k \in 1..Len(queue_) : queue_[k] = i)
      ~> (StopRequested \/ \E k \in 1..Len(applied) : applied[k] = i)

C19_Witness ==
  /\ pc = "towait" /\ queue_ = <<1>> /\ cb_pc = "idle" /\ ~StopRequested

====
